---- MODULE Spec2Model ----
(***************************************************************************)
(* Model of package inventory (src/unnamed/part_000): a fixed-size array   *)
(* of item stacks protected by a sync.RWMutex, with a change callback.     *)
(* The item.Stack value type lives in the item package, whose source is    *)
(* not part of the files modelled here; its operations are modelled from   *)
(* the capability set of spec.md section 3 (isEmpty, quantity, ...).       *)
(*                                                                         *)
(* Two views of the same code are modelled:                                *)
(*   - whole calls made by one goroutine (actions New, Item, SetItem, ...),*)
(*   - the lock-level steps of the same methods run by several goroutines  *)
(*     (actions ItemCheck, ItemRLock, ..., one per lock operation or loop  *)
(*     iteration).                                                         *)
(***************************************************************************)
EXTENDS Integers, Sequences, FiniteSets, TLC

\* ------------------------------------------------------------------------
\* Bounds
\* ------------------------------------------------------------------------
MaxSize == 2
SmallMax == 2
NumThreads == 2

\* Default maximum count of a stack (the scenario of spec.md section 8).
DefaultMax == 64

\* ------------------------------------------------------------------------
\* item.Stack (modelled from spec.md section 3)
\* ------------------------------------------------------------------------
\* Item identities.  "nil" is the item of the zero Stack.  A and B stack up
\* to the default maximum; P and Q are items with a small maximum count.
Nil == "nil"
SmallItems == {"P", "Q"}
ScenarioItems == {"A", "B"}

NewStack(t, c) == [item |-> t, count |-> IF c < 0 THEN 0 ELSE c]

ZeroStack == [item |-> Nil, count |-> 0]

quantity(s) == IF s.count < 0 \/ s.item = Nil THEN 0 ELSE s.count

isEmpty(s) == quantity(s) = 0 \/ s.item = Nil

maximumQuantity(s) == IF s.item \in SmallItems THEN SmallMax ELSE DefaultMax

isComparable(s, s2) == s.item = s2.item

Min(a, b) == IF a < b THEN a ELSE b

\* combine(other) -> (filled, remainder): merges s2 into s up to capacity.
\* Stacks that are not comparable, or a receiver that is already full, are
\* returned as they are.
combine(s, s2) ==
    IF ~isComparable(s, s2) THEN [a |-> s, b |-> s2]
    ELSE IF quantity(s) >= maximumQuantity(s) THEN [a |-> s, b |-> s2]
    ELSE LET diff == Min(maximumQuantity(s) - quantity(s), quantity(s2))
         IN [a |-> [s EXCEPT !.count = s.count + diff],
             b |-> [s2 EXCEPT !.count = s2.count - diff]]

\* adjust(delta): quantity changed by delta, clamped at zero.
adjust(s, n) == [s EXCEPT !.count = IF s.count + n < 0 THEN 0 ELSE s.count + n]

\* ------------------------------------------------------------------------
\* Inventory: slot arrays are functions over 0 .. size-1
\* ------------------------------------------------------------------------
len(sl) == Cardinality(DOMAIN sl)

\* The slots of the zero value of Inventory: a nil slice.
NilSlots == [i \in {} |-> ZeroStack]

\* make([]item.Stack, size)
MakeSlots(size) == [i \in 0 .. size - 1 |-> ZeroStack]

\* validSlot: slot >= 0 && slot < inv.Size()
validSlot(sl, slot) == slot >= 0 /\ slot < len(sl)

\* setItem with the assignment to inv.slots[slot] left out.
setItem_notifyOnly(sl, ns, at, slot, it) ==
    [slots |-> sl,
     notes |-> IF at THEN Append(ns, <<slot, it>>) ELSE ns]

\* setItem: inv.slots[slot] = item; inv.f(slot, item).  ns is the list of
\* calls received by the function passed to New; at tells whether inv.f is
\* still that function.
setItem(sl, ns, at, slot, it) ==
    [slots |-> [sl EXCEPT ![slot] = it],
     notes |-> IF at THEN Append(ns, <<slot, it>>) ELSE ns]

\* The first loop of AddItem with "it = b" left out: the stack to add stays
\* what it was after a slot took a part of it.
RECURSIVE addPass1_keepStack(_, _, _, _, _)
addPass1_keepStack(sl, ns, at, it, i) ==
    IF i >= len(sl) THEN [slots |-> sl, notes |-> ns, it |-> it, done |-> FALSE]
    ELSE IF isEmpty(sl[i]) THEN addPass1_keepStack(sl, ns, at, it, i + 1)
    ELSE LET r == combine(sl[i], it)
             w == [slots |-> [sl EXCEPT ![i] = r.a],
                   notes |-> IF at THEN Append(ns, <<i, r.a>>) ELSE ns]
         IN IF isEmpty(r.b)
            THEN [slots |-> w.slots, notes |-> w.notes, it |-> r.b, done |-> TRUE]
            ELSE addPass1_keepStack(w.slots, w.notes, at, it, i + 1)

\* The first loop of AddItem, from slot i on.
RECURSIVE addPass1(_, _, _, _, _)
addPass1(sl, ns, at, it, i) ==
    IF i >= len(sl) THEN [slots |-> sl, notes |-> ns, it |-> it, done |-> FALSE]
    ELSE IF isEmpty(sl[i]) THEN addPass1(sl, ns, at, it, i + 1)
    ELSE LET r == combine(sl[i], it)
             w == setItem(sl, ns, at, i, r.a)
         IN IF isEmpty(r.b)
            THEN [slots |-> w.slots, notes |-> w.notes, it |-> r.b, done |-> TRUE]
            ELSE addPass1(w.slots, w.notes, at, r.b, i + 1)

\* The second loop of AddItem leaving the loop after the first empty slot it
\* filled.
RECURSIVE addPass2_stopAfterFirst(_, _, _, _, _)
addPass2_stopAfterFirst(sl, ns, at, it, i) ==
    IF i >= len(sl) THEN [slots |-> sl, notes |-> ns, it |-> it, done |-> FALSE]
    ELSE IF ~isEmpty(sl[i]) THEN addPass2_stopAfterFirst(sl, ns, at, it, i + 1)
    ELSE LET r == combine(NewStack(it.item, 0), it)
             w == [slots |-> [sl EXCEPT ![i] = r.a],
                   notes |-> IF at THEN Append(ns, <<i, r.a>>) ELSE ns]
         IN [slots |-> w.slots, notes |-> w.notes, it |-> r.b, done |-> isEmpty(r.b)]

\* The second loop of AddItem, from slot i on.
RECURSIVE addPass2(_, _, _, _, _)
addPass2(sl, ns, at, it, i) ==
    IF i >= len(sl) THEN [slots |-> sl, notes |-> ns, it |-> it, done |-> FALSE]
    ELSE IF ~isEmpty(sl[i]) THEN addPass2(sl, ns, at, it, i + 1)
    ELSE LET r == combine(NewStack(it.item, 0), it)
             w == setItem(sl, ns, at, i, r.a)
         IN IF isEmpty(r.b)
            THEN [slots |-> w.slots, notes |-> w.notes, it |-> r.b, done |-> TRUE]
            ELSE addPass2(w.slots, w.notes, at, r.b, i + 1)

\* AddItem with the two loops in the other order: empty slots are filled
\* before the stacks already there are topped up.
addItem_emptyFirst(sl, at, it) ==
    LET p2 == addPass2(sl, <<>>, at, it, 0)
        p1 == addPass1(p2.slots, p2.notes, at, p2.it, 0)
    IN IF p2.done THEN [slots |-> p2.slots, notes |-> p2.notes, err |-> "nil"]
       ELSE IF p1.done THEN [slots |-> p1.slots, notes |-> p1.notes, err |-> "nil"]
       ELSE [slots |-> p1.slots, notes |-> p1.notes, err |-> "ErrAdd"]

\* AddItem as a whole: the slots, the callback calls and the error.
addItem(sl, at, it) ==
    LET p1 == addPass1(sl, <<>>, at, it, 0)
        p2 == addPass2(p1.slots, p1.notes, at, p1.it, 0)
    IN IF p1.done THEN [slots |-> p1.slots, notes |-> p1.notes, err |-> "nil"]
       ELSE IF p2.done THEN [slots |-> p2.slots, notes |-> p2.notes, err |-> "nil"]
       ELSE [slots |-> p2.slots, notes |-> p2.notes, err |-> "ErrAdd"]

\* The loop of RemoveItem with "toRemove -= slotIt.Count()" done before the
\* slot is shrunk.
RECURSIVE removeLoop_countFirst(_, _, _, _, _, _)
removeLoop_countFirst(sl, ns, at, it, toRemove, i) ==
    IF i >= len(sl) THEN [slots |-> sl, notes |-> ns, err |-> "ErrRemove"]
    ELSE IF isEmpty(sl[i]) THEN removeLoop_countFirst(sl, ns, at, it, toRemove, i + 1)
    ELSE IF ~isComparable(sl[i], it) THEN removeLoop_countFirst(sl, ns, at, it, toRemove, i + 1)
    ELSE LET left == toRemove - quantity(sl[i])
             w == [slots |-> [sl EXCEPT ![i] = adjust(sl[i], -left)],
                   notes |-> IF at THEN Append(ns, <<i, adjust(sl[i], -left)>>) ELSE ns]
         IN IF left <= 0
            THEN [slots |-> w.slots, notes |-> w.notes, err |-> "nil"]
            ELSE removeLoop_countFirst(w.slots, w.notes, at, it, left, i + 1)

\* The loop of RemoveItem, from slot i on.
RECURSIVE removeLoop(_, _, _, _, _, _)
removeLoop(sl, ns, at, it, toRemove, i) ==
    IF i >= len(sl) THEN [slots |-> sl, notes |-> ns, err |-> "ErrRemove"]
    ELSE IF isEmpty(sl[i]) THEN removeLoop(sl, ns, at, it, toRemove, i + 1)
    ELSE IF ~isComparable(sl[i], it) THEN removeLoop(sl, ns, at, it, toRemove, i + 1)
    ELSE LET w == setItem(sl, ns, at, i, adjust(sl[i], -toRemove))
             left == toRemove - quantity(sl[i])
         IN IF left <= 0
            THEN [slots |-> w.slots, notes |-> w.notes, err |-> "nil"]
            ELSE removeLoop(w.slots, w.notes, at, it, left, i + 1)

\* RemoveItem with a loop that starts at slot 1.
removeItem_fromSlot1(sl, at, it) == removeLoop(sl, <<>>, at, it, quantity(it), 1)

\* RemoveItem as a whole: the slots, the callback calls and the error.
removeItem(sl, at, it) == removeLoop(sl, <<>>, at, it, quantity(it), 0)

\* Empty: every stack of the inventory is empty.
empty(sl) == \A i \in DOMAIN sl : isEmpty(sl[i])

\* ------------------------------------------------------------------------
\* State
\* ------------------------------------------------------------------------
VARIABLES
    slots,      \* inv.slots
    attached,   \* TRUE while inv.f is the function passed to New
    call,       \* the last whole call made: [op, slot, it, size]
    ret,        \* what that call returned: [err, stack, n, b]
    pre,        \* inv.slots when that call was made
    notes,      \* the calls of the function passed to New made by that call
    scen,       \* how many calls of the section 8 scenario were made so far
    pair,       \* set when that call and the one before it form a pair of interest
    pc,         \* per goroutine: the place it is at inside a method
    loc,        \* per goroutine: its arguments and local variables
    writer,     \* the goroutine holding inv.mu exclusively, or 0
    readers,    \* the goroutines holding inv.mu shared
    snap,       \* per goroutine: inv.slots when it took the inv.mu.Lock() it holds
    ev,         \* the call a goroutine returned from in the last step: [t, op, err, n]
    ent,        \* the item entity made last: [made, arg, i, pickupDelay]
    mirror      \* the copy of the slots kept by an observer from the calls of the
                \* function passed to New it received, while inv.f is that function

seqVars == <<call, ret, pre, notes, scen, pair>>
conVars == <<pc, loc, writer, readers, snap, ev, mirror>>
vars == <<slots, attached, call, ret, pre, notes, scen, pair,
          pc, loc, writer, readers, snap, ev, ent, mirror>>

Threads == 1 .. NumThreads

\* Arguments of the calls.
\* Quantities asked of AddItem and RemoveItem go up to MaxQty, enough to span
\* several slots; SetItem also stores a stack above its maximum count.
MaxQty == 2 * SmallMax
Stacks == {NewStack("P", c) : c \in 0 .. MaxQty} \cup {NewStack("Q", 1)}
SetStacks == {ZeroStack, NewStack("P", SmallMax + 1), NewStack("Q", 1)}
ConAddStacks == {NewStack("P", MaxQty), NewStack("Q", 1)}
ConRemoveStacks == {NewStack("P", 1), NewStack("Q", 1)}
ConSetStacks == {NewStack("Q", 1)}
ScenarioStacks == {NewStack(t, c) : t \in ScenarioItems, c \in {10, 30, 40, 50}}
SlotArgs == -1 .. MaxSize
SizeArgs == -1 .. MaxSize

NoCall == [op |-> "none", slot |-> 0, it |-> ZeroStack, size |-> 0]
Call(op, slot, it) == [op |-> op, slot |-> slot, it |-> it, size |-> 0]
Ret(err) == [err |-> err, stack |-> ZeroStack, n |-> 0, b |-> FALSE]
NoRet == Ret("none")

\* The calls of the scenario of spec.md section 8, in order.
Scenario ==
    << Call("AddItem", 0, NewStack("A", 40)),
       Call("AddItem", 0, NewStack("A", 30)),
       Call("AddItem", 0, NewStack("B", 10)),
       Call("RemoveItem", 0, NewStack("A", 50)) >>

ScenNext(c) ==
    IF scen \in 0 .. Len(Scenario) - 1 /\ c = Scenario[scen + 1] THEN scen + 1 ELSE -1

\* The greatest quantity the slots sl can hold of the item of stack it.
capacity(sl, it) == len(sl) * maximumQuantity(it)

\* Two calls in a row that a property is about: a SetItem that succeeded and
\* then Item on the same slot; an AddItem on an inventory with only empty
\* slots and room for the stack and then RemoveItem of the same stack; Close
\* and then Close again; Close and then AddItem.
NoPair == [kind |-> "none", it |-> ZeroStack]
PairNext(c) ==
    IF c.op = "Item" /\ call.op = "SetItem" /\ ret.err = "nil" /\ c.slot = call.slot
    THEN [kind |-> "set-get", it |-> call.it]
    ELSE IF /\ c.op = "RemoveItem" /\ call.op = "AddItem" /\ c.it = call.it
            /\ len(pre) >= 1 /\ empty(pre) /\ quantity(call.it) <= capacity(pre, call.it)
    THEN [kind |-> "add-remove", it |-> call.it]
    ELSE IF c.op = "Close" /\ call.op = "Close" /\ len(pre) >= 1
    THEN [kind |-> "close-close", it |-> ZeroStack]
    ELSE IF c.op = "AddItem" /\ call.op = "Close" /\ len(pre) >= 1
    THEN [kind |-> "close-add", it |-> ZeroStack]
    ELSE NoPair

IdleLoc == [op |-> "none", slot |-> 0, arg |-> ZeroStack, it |-> ZeroStack, i |-> 0, toRemove |-> 0]
Ev(t, op, err) == [t |-> t, op |-> op, err |-> err, n |-> 0]
NoEv == Ev(0, "none", "none")

\* No item entity was made yet.
NoItem == [made |-> FALSE, arg |-> ZeroStack, i |-> ZeroStack, pickupDelay |-> 0]

ConInit ==
    /\ pc = [t \in Threads |-> "idle"]
    /\ loc = [t \in Threads |-> IdleLoc]
    /\ writer = 0
    /\ readers = {}
    /\ snap = [t \in Threads |-> NilSlots]
    /\ ev = NoEv

\* The program starts with the zero value of Inventory: no slots, no f.
Init ==
    /\ slots = NilSlots
    /\ attached = FALSE
    /\ call = NoCall
    /\ ret = NoRet
    /\ pre = NilSlots
    /\ notes = <<>>
    /\ scen = -1
    /\ pair = NoPair
    /\ ConInit
    /\ ent = NoItem
    /\ mirror = NilSlots

\* A panic ends the program.
Alive == ret.err # "panic"

\* ------------------------------------------------------------------------
\* Whole calls made by one goroutine
\* ------------------------------------------------------------------------
\* check: panics if inv.Size() == 0
check(sl) == len(sl) # 0

\* New(size, f); hasF is f != nil.  It replaces the zero value.
New(size, hasF) ==
    /\ Alive
    /\ len(slots) = 0
    /\ call' = [op |-> "New", slot |-> 0, it |-> ZeroStack, size |-> size]
    /\ pre' = slots
    /\ notes' = <<>>
    /\ pair' = NoPair
    /\ IF size <= 0
       THEN /\ ret' = Ret("panic")
            /\ scen' = -1
            /\ UNCHANGED <<slots, attached>>
       ELSE /\ slots' = MakeSlots(size)
            /\ attached' = hasF
            /\ ret' = Ret("nil")
            /\ scen' = IF size = 2 THEN 0 ELSE -1
    /\ UNCHANGED <<conVars, ent>>

Item(slot) ==
    /\ Alive
    /\ call' = Call("Item", slot, ZeroStack)
    /\ pre' = slots
    /\ notes' = <<>>
    /\ scen' = ScenNext(call')
    /\ pair' = PairNext(call')
    /\ ret' = IF ~check(slots) THEN Ret("panic")
              ELSE IF ~validSlot(slots, slot) THEN Ret("ErrSlotOutOfRange")
              ELSE [Ret("nil") EXCEPT !.stack = slots[slot]]
    /\ UNCHANGED <<slots, attached>>
    /\ UNCHANGED <<conVars, ent>>

\* SetItem without the test of inv.validSlot(slot).
SetItem_noRangeCheck(slot, it) ==
    /\ Alive
    /\ call' = Call("SetItem", slot, it)
    /\ pre' = slots
    /\ scen' = ScenNext(call')
    /\ pair' = PairNext(call')
    /\ IF ~check(slots)
       THEN /\ ret' = Ret("panic")
            /\ notes' = <<>>
            /\ UNCHANGED slots
       ELSE /\ slots' = [i \in DOMAIN slots |-> IF i = slot THEN it ELSE slots[i]]
            /\ notes' = IF attached THEN <<<<slot, it>>>> ELSE <<>>
            /\ ret' = Ret("nil")
    /\ UNCHANGED attached
    /\ UNCHANGED <<conVars, ent>>

SetItem(slot, it) ==
    /\ Alive
    /\ call' = Call("SetItem", slot, it)
    /\ pre' = slots
    /\ scen' = ScenNext(call')
    /\ pair' = PairNext(call')
    /\ IF ~check(slots)
       THEN /\ ret' = Ret("panic")
            /\ notes' = <<>>
            /\ UNCHANGED slots
       ELSE IF ~validSlot(slots, slot)
       THEN /\ ret' = Ret("ErrSlotOutOfRange")
            /\ notes' = <<>>
            /\ UNCHANGED slots
       ELSE LET w == setItem(slots, <<>>, attached, slot, it)
            IN /\ slots' = w.slots
               /\ notes' = w.notes
               /\ ret' = Ret("nil")
    /\ UNCHANGED attached
    /\ UNCHANGED <<conVars, ent>>

\* AddItem that leaves the slots as they were when it returns the error.
AddItem_rollback(it) ==
    /\ Alive
    /\ call' = Call("AddItem", 0, it)
    /\ pre' = slots
    /\ scen' = ScenNext(call')
    /\ pair' = PairNext(call')
    /\ LET r == addItem(slots, attached, it)
       IN /\ slots' = IF r.err = "nil" THEN r.slots ELSE slots
          /\ notes' = r.notes
          /\ ret' = Ret(r.err)
    /\ UNCHANGED attached
    /\ UNCHANGED <<conVars, ent>>

AddItem(it) ==
    /\ Alive
    /\ call' = Call("AddItem", 0, it)
    /\ pre' = slots
    /\ scen' = ScenNext(call')
    /\ pair' = PairNext(call')
    /\ LET r == addItem(slots, attached, it)
       IN /\ slots' = r.slots
          /\ notes' = r.notes
          /\ ret' = Ret(r.err)
    /\ UNCHANGED attached
    /\ UNCHANGED <<conVars, ent>>

\* RemoveItem that puts back what it took when it returns the error.
RemoveItem_rollback(it) ==
    /\ Alive
    /\ call' = Call("RemoveItem", 0, it)
    /\ pre' = slots
    /\ scen' = ScenNext(call')
    /\ pair' = PairNext(call')
    /\ LET r == removeItem(slots, attached, it)
       IN /\ slots' = IF r.err = "nil" THEN r.slots ELSE slots
          /\ notes' = r.notes
          /\ ret' = Ret(r.err)
    /\ UNCHANGED attached
    /\ UNCHANGED <<conVars, ent>>

RemoveItem(it) ==
    /\ Alive
    /\ call' = Call("RemoveItem", 0, it)
    /\ pre' = slots
    /\ scen' = ScenNext(call')
    /\ pair' = PairNext(call')
    /\ LET r == removeItem(slots, attached, it)
       IN /\ slots' = r.slots
          /\ notes' = r.notes
          /\ ret' = Ret(r.err)
    /\ UNCHANGED attached
    /\ UNCHANGED <<conVars, ent>>

Empty ==
    /\ Alive
    /\ call' = Call("Empty", 0, ZeroStack)
    /\ pre' = slots
    /\ notes' = <<>>
    /\ scen' = ScenNext(call')
    /\ pair' = PairNext(call')
    /\ ret' = [Ret("nil") EXCEPT !.b = empty(slots)]
    /\ UNCHANGED <<slots, attached>>
    /\ UNCHANGED <<conVars, ent>>

\* Size returning the number of slots that hold a stack, not len(inv.slots).
Size_countStacks ==
    /\ Alive
    /\ call' = Call("Size", 0, ZeroStack)
    /\ pre' = slots
    /\ notes' = <<>>
    /\ scen' = ScenNext(call')
    /\ pair' = PairNext(call')
    /\ ret' = [Ret("nil") EXCEPT !.n = Cardinality({i \in DOMAIN slots : ~isEmpty(slots[i])})]
    /\ UNCHANGED <<slots, attached>>
    /\ UNCHANGED <<conVars, ent>>

Size ==
    /\ Alive
    /\ call' = Call("Size", 0, ZeroStack)
    /\ pre' = slots
    /\ notes' = <<>>
    /\ scen' = ScenNext(call')
    /\ pair' = PairNext(call')
    /\ ret' = [Ret("nil") EXCEPT !.n = len(slots)]
    /\ UNCHANGED <<slots, attached>>
    /\ UNCHANGED <<conVars, ent>>

\* Close that also empties every slot, as a destructor would.
Close_clearSlots ==
    /\ Alive
    /\ call' = Call("Close", 0, ZeroStack)
    /\ pre' = slots
    /\ notes' = <<>>
    /\ scen' = ScenNext(call')
    /\ pair' = PairNext(call')
    /\ attached' = FALSE
    /\ ret' = Ret("nil")
    /\ slots' = [i \in DOMAIN slots |-> ZeroStack]
    /\ UNCHANGED <<conVars, ent>>

Close ==
    /\ Alive
    /\ call' = Call("Close", 0, ZeroStack)
    /\ pre' = slots
    /\ notes' = <<>>
    /\ scen' = ScenNext(call')
    /\ pair' = PairNext(call')
    /\ attached' = FALSE
    /\ ret' = Ret("nil")
    /\ UNCHANGED slots
    /\ UNCHANGED <<conVars, ent>>

Next ==
    \/ \E size \in SizeArgs, hasF \in BOOLEAN : New(size, hasF)
    \/ \E slot \in SlotArgs : Item(slot)
    \/ \E slot \in SlotArgs, it \in SetStacks : SetItem(slot, it)
    \/ \E it \in Stacks : AddItem(it)
    \/ \E it \in Stacks : RemoveItem(it)
    \/ Empty
    \/ Size
    \/ Close

Spec == Init /\ [][Next]_vars

\* The scenario of spec.md section 8: a 2-slot inventory just made by New,
\* and calls of AddItem and RemoveItem with stacks of the items A and B.
InitScenario ==
    /\ slots = MakeSlots(2)
    /\ attached \in BOOLEAN
    /\ call = [op |-> "New", slot |-> 0, it |-> ZeroStack, size |-> 2]
    /\ ret = Ret("nil")
    /\ pre = NilSlots
    /\ notes = <<>>
    /\ scen = 0
    /\ pair = NoPair
    /\ ConInit
    /\ ent = NoItem
    /\ mirror = NilSlots

NextScenario ==
    \/ \E it \in ScenarioStacks : AddItem(it)
    \/ \E it \in ScenarioStacks : RemoveItem(it)

SpecScenario == InitScenario /\ [][NextScenario]_vars

\* ------------------------------------------------------------------------
\* The same methods, step by step, run by several goroutines
\* ------------------------------------------------------------------------
\* The observer: it applies the calls ns of the function passed to New, in
\* order, to its copy m of the slots.
RECURSIVE observe(_, _)
observe(m, ns) ==
    IF ns = <<>> THEN m
    ELSE observe([m EXCEPT ![ns[1][1]] = ns[1][2]], Tail(ns))

\* inv.mu.RLock() returns only while no goroutine holds the lock exclusively;
\* inv.mu.Lock() only while no goroutine holds it at all.
canRLock == writer = 0
canLock == writer = 0 /\ readers = {}

\* The state after New(size, f) returned, no goroutine inside a method yet.
InitSized(sizes) ==
    /\ \E size \in sizes : slots = MakeSlots(size)
    /\ attached \in BOOLEAN
    /\ call = NoCall
    /\ ret = NoRet
    /\ pre = NilSlots
    /\ notes = <<>>
    /\ scen = -1
    /\ pair = NoPair
    /\ ConInit
    /\ ent = NoItem
    /\ mirror = slots

\* A goroutine leaves a method and goes back to idle.
Leave(t) ==
    /\ pc' = [pc EXCEPT ![t] = "idle"]
    /\ loc' = [loc EXCEPT ![t] = IdleLoc]

\* Item: inv.check() and inv.validSlot(slot), both through Size().
ItemCheck(t, slot) ==
    /\ pc[t] = "idle"
    /\ canRLock
    /\ check(slots)
    /\ IF ~validSlot(slots, slot)
       THEN /\ Leave(t)
            /\ ev' = Ev(t, "Item", "ErrSlotOutOfRange")
       ELSE /\ pc' = [pc EXCEPT ![t] = "Item_rlock"]
            /\ loc' = [loc EXCEPT ![t] = [IdleLoc EXCEPT !.op = "Item", !.slot = slot]]
            /\ ev' = NoEv
    /\ UNCHANGED <<slots, attached, writer, readers, snap>>
    /\ UNCHANGED <<seqVars, ent, mirror>>

\* Item: inv.mu.RLock()
ItemRLock(t) ==
    /\ pc[t] = "Item_rlock"
    /\ canRLock
    /\ readers' = readers \cup {t}
    /\ pc' = [pc EXCEPT ![t] = "Item_read"]
    /\ ev' = NoEv
    /\ UNCHANGED <<slots, attached, loc, writer, snap>>
    /\ UNCHANGED <<seqVars, ent, mirror>>

\* Item: i := inv.slots[slot]; inv.mu.RUnlock(); return i, nil
ItemRead(t) ==
    /\ pc[t] = "Item_read"
    /\ readers' = readers \ {t}
    /\ ev' = Ev(t, "Item", "nil")
    /\ Leave(t)
    /\ UNCHANGED <<slots, attached, writer, snap>>
    /\ UNCHANGED <<seqVars, ent, mirror>>

\* SetItem: inv.check() and inv.validSlot(slot)
SetItemCheck(t, slot, it) ==
    /\ pc[t] = "idle"
    /\ canRLock
    /\ check(slots)
    /\ IF ~validSlot(slots, slot)
       THEN /\ Leave(t)
            /\ ev' = Ev(t, "SetItem", "ErrSlotOutOfRange")
       ELSE /\ pc' = [pc EXCEPT ![t] = "SetItem_lock"]
            /\ loc' = [loc EXCEPT ![t] =
                          [IdleLoc EXCEPT !.op = "SetItem", !.slot = slot, !.arg = it, !.it = it]]
            /\ ev' = NoEv
    /\ UNCHANGED <<slots, attached, writer, readers, snap>>
    /\ UNCHANGED <<seqVars, ent, mirror>>

\* SetItem: inv.mu.Lock()
SetItemLock(t) ==
    /\ pc[t] = "SetItem_lock"
    /\ canLock
    /\ writer' = t
    /\ snap' = [snap EXCEPT ![t] = slots]
    /\ pc' = [pc EXCEPT ![t] = "SetItem_write"]
    /\ ev' = NoEv
    /\ UNCHANGED <<slots, attached, loc, readers>>
    /\ UNCHANGED <<seqVars, ent, mirror>>

\* SetItem calling inv.f with the stack the slot held, before it assigns the
\* slot.
SetItemWrite_notifyFirst(t) ==
    /\ pc[t] = "SetItem_write"
    /\ slots' = [slots EXCEPT ![loc[t].slot] = loc[t].it]
    /\ mirror' = IF attached THEN [mirror EXCEPT ![loc[t].slot] = slots[loc[t].slot]]
                 ELSE mirror
    /\ writer' = 0
    /\ snap' = [snap EXCEPT ![t] = NilSlots]
    /\ ev' = Ev(t, "SetItem", "nil")
    /\ Leave(t)
    /\ UNCHANGED <<attached, readers>>
    /\ UNCHANGED <<seqVars, ent>>

\* SetItem: inv.setItem(slot, item); inv.mu.Unlock(); return nil
SetItemWrite(t) ==
    /\ pc[t] = "SetItem_write"
    /\ LET w == setItem(slots, <<>>, attached, loc[t].slot, loc[t].it)
       IN slots' = w.slots /\ mirror' = observe(mirror, w.notes)
    /\ writer' = 0
    /\ snap' = [snap EXCEPT ![t] = NilSlots]
    /\ ev' = Ev(t, "SetItem", "nil")
    /\ Leave(t)
    /\ UNCHANGED <<attached, readers>>
    /\ UNCHANGED <<seqVars, ent>>

\* AddItem without inv.mu.Lock().
AddItemLock_noLock(t, it) ==
    /\ pc[t] = "idle"
    /\ snap' = [snap EXCEPT ![t] = slots]
    /\ pc' = [pc EXCEPT ![t] = "AddItem_pass1"]
    /\ loc' = [loc EXCEPT ![t] = [IdleLoc EXCEPT !.op = "AddItem", !.arg = it, !.it = it]]
    /\ ev' = NoEv
    /\ UNCHANGED <<slots, attached, writer, readers>>
    /\ UNCHANGED <<seqVars, ent, mirror>>

\* AddItem: inv.mu.Lock(); defer inv.mu.Unlock()
AddItemLock(t, it) ==
    /\ pc[t] = "idle"
    /\ canLock
    /\ writer' = t
    /\ snap' = [snap EXCEPT ![t] = slots]
    /\ pc' = [pc EXCEPT ![t] = "AddItem_pass1"]
    /\ loc' = [loc EXCEPT ![t] = [IdleLoc EXCEPT !.op = "AddItem", !.arg = it, !.it = it]]
    /\ ev' = NoEv
    /\ UNCHANGED <<slots, attached, readers>>
    /\ UNCHANGED <<seqVars, ent, mirror>>

\* A method that holds the lock exclusively returns err: the deferred
\* inv.mu.Unlock() runs.
ReturnUnlock(t, op, err) ==
    /\ writer' = 0
    /\ snap' = [snap EXCEPT ![t] = NilSlots]
    /\ ev' = Ev(t, op, err)
    /\ Leave(t)

\* AddItem: one iteration of the first loop (or the end of that loop).
AddItemPass1(t) ==
    /\ pc[t] = "AddItem_pass1"
    /\ LET i == loc[t].i
       IN IF i >= len(slots)
          THEN /\ pc' = [pc EXCEPT ![t] = "AddItem_pass2"]
               /\ loc' = [loc EXCEPT ![t].i = 0]
               /\ ev' = NoEv
               /\ UNCHANGED <<slots, mirror, writer, snap>>
          ELSE IF isEmpty(slots[i])
          THEN /\ loc' = [loc EXCEPT ![t].i = i + 1]
               /\ ev' = NoEv
               /\ UNCHANGED <<slots, mirror, pc, writer, snap>>
          ELSE LET r == combine(slots[i], loc[t].it)
                   w == setItem(slots, <<>>, attached, i, r.a)
               IN /\ slots' = w.slots
                  /\ mirror' = observe(mirror, w.notes)
                  /\ IF isEmpty(r.b)
                     THEN ReturnUnlock(t, "AddItem", "nil")
                     ELSE /\ loc' = [loc EXCEPT ![t].i = i + 1, ![t].it = r.b]
                          /\ ev' = NoEv
                          /\ UNCHANGED <<pc, writer, snap>>
    /\ UNCHANGED <<attached, readers>>
    /\ UNCHANGED <<seqVars, ent>>

\* The second loop of AddItem storing the whole stack that is left in the
\* empty slot, not the part of it that fits.
AddItemPass2_storeAll(t) ==
    /\ pc[t] = "AddItem_pass2"
    /\ LET i == loc[t].i
       IN IF i >= len(slots)
          THEN /\ ReturnUnlock(t, "AddItem", "ErrAdd")
               /\ UNCHANGED <<slots, mirror>>
          ELSE IF ~isEmpty(slots[i])
          THEN /\ loc' = [loc EXCEPT ![t].i = i + 1]
               /\ ev' = NoEv
               /\ UNCHANGED <<slots, mirror, pc, writer, snap>>
          ELSE /\ slots' = [slots EXCEPT ![i] = loc[t].it]
               /\ mirror' = IF attached THEN [mirror EXCEPT ![i] = loc[t].it] ELSE mirror
               /\ ReturnUnlock(t, "AddItem", "nil")
    /\ UNCHANGED <<attached, readers>>
    /\ UNCHANGED <<seqVars, ent>>

\* AddItem: one iteration of the second loop, or the return of the error.
AddItemPass2(t) ==
    /\ pc[t] = "AddItem_pass2"
    /\ LET i == loc[t].i
       IN IF i >= len(slots)
          THEN /\ ReturnUnlock(t, "AddItem", "ErrAdd")
               /\ UNCHANGED <<slots, mirror>>
          ELSE IF ~isEmpty(slots[i])
          THEN /\ loc' = [loc EXCEPT ![t].i = i + 1]
               /\ ev' = NoEv
               /\ UNCHANGED <<slots, mirror, pc, writer, snap>>
          ELSE LET r == combine(NewStack(loc[t].it.item, 0), loc[t].it)
                   w == setItem(slots, <<>>, attached, i, r.a)
               IN /\ slots' = w.slots
                  /\ mirror' = observe(mirror, w.notes)
                  /\ IF isEmpty(r.b)
                     THEN ReturnUnlock(t, "AddItem", "nil")
                     ELSE /\ loc' = [loc EXCEPT ![t].i = i + 1, ![t].it = r.b]
                          /\ ev' = NoEv
                          /\ UNCHANGED <<pc, writer, snap>>
    /\ UNCHANGED <<attached, readers>>
    /\ UNCHANGED <<seqVars, ent>>

\* RemoveItem: toRemove := it.Count(); inv.mu.Lock(); defer inv.mu.Unlock()
RemoveItemLock(t, it) ==
    /\ pc[t] = "idle"
    /\ canLock
    /\ writer' = t
    /\ snap' = [snap EXCEPT ![t] = slots]
    /\ pc' = [pc EXCEPT ![t] = "RemoveItem_loop"]
    /\ loc' = [loc EXCEPT ![t] = [IdleLoc EXCEPT !.op = "RemoveItem", !.arg = it, !.it = it,
                                                  !.toRemove = quantity(it)]]
    /\ ev' = NoEv
    /\ UNCHANGED <<slots, attached, readers>>
    /\ UNCHANGED <<seqVars, ent, mirror>>

\* RemoveItem: one iteration of the loop, or the return of the error.
RemoveItemLoop(t) ==
    /\ pc[t] = "RemoveItem_loop"
    /\ LET i == loc[t].i
       IN IF i >= len(slots)
          THEN /\ ReturnUnlock(t, "RemoveItem", "ErrRemove")
               /\ UNCHANGED <<slots, mirror>>
          ELSE IF isEmpty(slots[i]) \/ ~isComparable(slots[i], loc[t].it)
          THEN /\ loc' = [loc EXCEPT ![t].i = i + 1]
               /\ ev' = NoEv
               /\ UNCHANGED <<slots, mirror, pc, writer, snap>>
          ELSE LET left == loc[t].toRemove - quantity(slots[i])
                   w == setItem(slots, <<>>, attached, i, adjust(slots[i], -loc[t].toRemove))
               IN /\ slots' = w.slots
                  /\ mirror' = observe(mirror, w.notes)
                  /\ IF left <= 0
                     THEN ReturnUnlock(t, "RemoveItem", "nil")
                     ELSE /\ loc' = [loc EXCEPT ![t].i = i + 1, ![t].toRemove = left]
                          /\ ev' = NoEv
                          /\ UNCHANGED <<pc, writer, snap>>
    /\ UNCHANGED <<attached, readers>>
    /\ UNCHANGED <<seqVars, ent>>

\* Empty: inv.mu.RLock(); the loop over inv.slots; the deferred
\* inv.mu.RUnlock()
EmptyCall(t) ==
    /\ pc[t] = "idle"
    /\ canRLock
    /\ ev' = Ev(t, "Empty", IF empty(slots) THEN "true" ELSE "false")
    /\ UNCHANGED <<slots, attached, pc, loc, writer, readers, snap>>
    /\ UNCHANGED <<seqVars, ent, mirror>>

\* Size: inv.mu.RLock(); l := len(inv.slots); inv.mu.RUnlock(); return l
SizeCall(t) ==
    /\ pc[t] = "idle"
    /\ canRLock
    /\ ev' = [Ev(t, "Size", "nil") EXCEPT !.n = len(slots)]
    /\ UNCHANGED <<slots, attached, pc, loc, writer, readers, snap>>
    /\ UNCHANGED <<seqVars, ent, mirror>>

\* Close: inv.mu.Lock(); inv.f = func(int, item.Stack) {}; inv.mu.Unlock().
\* The observer receives nothing from now on: its copy is dropped.
CloseCall(t) ==
    /\ pc[t] = "idle"
    /\ canLock
    /\ attached' = FALSE
    /\ mirror' = [i \in DOMAIN slots |-> ZeroStack]
    /\ ev' = Ev(t, "Close", "nil")
    /\ UNCHANGED <<slots, pc, loc, writer, readers, snap>>
    /\ UNCHANGED <<seqVars, ent>>

\* String: s := make([]string, 0, inv.Size())
StringSize(t) ==
    /\ pc[t] = "idle"
    /\ canRLock
    /\ pc' = [pc EXCEPT ![t] = "String_read"]
    /\ loc' = [loc EXCEPT ![t] = [IdleLoc EXCEPT !.op = "String"]]
    /\ ev' = NoEv
    /\ UNCHANGED <<slots, attached, writer, readers, snap>>
    /\ UNCHANGED <<seqVars, ent, mirror>>

\* String: one iteration of the loop over inv.slots, which takes no lock,
\* or the return of the joined string.
StringRead(t) ==
    /\ pc[t] = "String_read"
    /\ LET i == loc[t].i
       IN IF i >= len(slots)
          THEN /\ Leave(t)
               /\ ev' = Ev(t, "String", "nil")
          ELSE /\ loc' = [loc EXCEPT ![t].i = i + 1]
               /\ ev' = NoEv
               /\ UNCHANGED pc
    /\ UNCHANGED <<slots, attached, writer, readers, snap>>
    /\ UNCHANGED <<seqVars, ent, mirror>>

NextCon ==
    \E t \in Threads :
        \/ \E slot \in SlotArgs : ItemCheck(t, slot)
        \/ ItemRLock(t)
        \/ ItemRead(t)
        \/ \E slot \in SlotArgs, it \in ConSetStacks : SetItemCheck(t, slot, it)
        \/ SetItemLock(t)
        \/ SetItemWrite(t)
        \/ \E it \in ConAddStacks : AddItemLock(t, it)
        \/ AddItemPass1(t)
        \/ AddItemPass2(t)
        \/ \E it \in ConRemoveStacks : RemoveItemLock(t, it)
        \/ RemoveItemLoop(t)
        \/ EmptyCall(t)
        \/ SizeCall(t)
        \/ CloseCall(t)
        \/ StringSize(t)
        \/ StringRead(t)

\* Goroutines that call every method of a 2-slot inventory.
InitCon == InitSized({2})

SpecCon == InitCon /\ [][NextCon]_vars

\* Goroutines that only call Item, AddItem and RemoveItem.
NextAddRemoveGet ==
    \E t \in Threads :
        \/ \E slot \in SlotArgs : ItemCheck(t, slot)
        \/ ItemRLock(t)
        \/ ItemRead(t)
        \/ \E it \in ConAddStacks : AddItemLock(t, it)
        \/ AddItemPass1(t)
        \/ AddItemPass2(t)
        \/ \E it \in ConRemoveStacks : RemoveItemLock(t, it)
        \/ RemoveItemLoop(t)

InitAddRemoveGet == InitSized(1 .. MaxSize)

SpecAddRemoveGet == InitAddRemoveGet /\ [][NextAddRemoveGet]_vars

\* ------------------------------------------------------------------------
\* SetItem with the call of inv.f as a step of its own
\* ------------------------------------------------------------------------
\* setItem without the lock around the call of inv.f: the slot is assigned
\* and the lock released before inv.f is called.
SetItemStore_unlockFirst(t) ==
    /\ pc[t] = "SetItem_write"
    /\ slots' = [slots EXCEPT ![loc[t].slot] = loc[t].it]
    /\ writer' = 0
    /\ pc' = [pc EXCEPT ![t] = "SetItem_f"]
    /\ ev' = NoEv
    /\ UNCHANGED <<attached, loc, readers, snap, mirror>>
    /\ UNCHANGED <<seqVars, ent>>

\* setItem: inv.slots[slot] = item; the goroutine is then inside
\* inv.f(slot, item), with the lock still held.
SetItemStore(t) ==
    /\ pc[t] = "SetItem_write"
    /\ slots' = [slots EXCEPT ![loc[t].slot] = loc[t].it]
    /\ pc' = [pc EXCEPT ![t] = "SetItem_f"]
    /\ ev' = NoEv
    /\ UNCHANGED <<attached, loc, writer, readers, snap, mirror>>
    /\ UNCHANGED <<seqVars, ent>>

\* inv.f(slot, item) returns, then SetItem: inv.mu.Unlock(); return nil
CallbackReturn(t) ==
    /\ pc[t] = "SetItem_f"
    /\ mirror' = IF attached THEN observe(mirror, <<<<loc[t].slot, loc[t].it>>>>) ELSE mirror
    /\ ReturnUnlock(t, "SetItem", "nil")
    /\ UNCHANGED <<slots, attached, readers>>
    /\ UNCHANGED <<seqVars, ent>>

\* Inside inv.f, the function passed to New calls a method of the same
\* inventory: the goroutine is at the entry of a method again, with the lock
\* it took in SetItem still held.
CallbackReenter(t) ==
    /\ pc[t] = "SetItem_f"
    /\ attached
    /\ pc' = [pc EXCEPT ![t] = "idle"]
    /\ loc' = [loc EXCEPT ![t] = [IdleLoc EXCEPT !.op = "f"]]
    /\ ev' = NoEv
    /\ UNCHANGED <<slots, attached, writer, readers, snap, mirror>>
    /\ UNCHANGED <<seqVars, ent>>

NextCallback ==
    \E t \in Threads :
        \/ \E slot \in SlotArgs : ItemCheck(t, slot)
        \/ ItemRLock(t)
        \/ ItemRead(t)
        \/ \E slot \in SlotArgs, it \in ConSetStacks : SetItemCheck(t, slot, it)
        \/ SetItemLock(t)
        \/ SetItemStore(t)
        \/ CallbackReturn(t)
        \/ CallbackReenter(t)
        \/ \E it \in ConAddStacks : AddItemLock(t, it)
        \/ AddItemPass1(t)
        \/ AddItemPass2(t)
        \/ \E it \in ConRemoveStacks : RemoveItemLock(t, it)
        \/ RemoveItemLoop(t)
        \/ EmptyCall(t)
        \/ SizeCall(t)
        \/ CloseCall(t)

SpecCallback == InitCon /\ [][NextCallback]_vars

\* ------------------------------------------------------------------------
\* Item entities (server/entity/item.go)
\* ------------------------------------------------------------------------
\* The stacks passed to NewItem: up to twice the greatest maximum count.
MaxItemCount == 2 * DefaultMax
ItemStacks == {NewStack(t, c) : t \in {"A", "P"}, c \in 0 .. MaxItemCount}

\* nbtconv.ItemToNBT(s, false): the name of the item and the count, which is
\* written as one byte.
ItemToNBT(s) == [Name |-> s.item, Count |-> s.count % 256]

\* nbtconv.ItemFromNBT(m, nil): the stack of the named item with the count read.
ItemFromNBT(m) == NewStack(m.Name, m.Count)

\* NewItem(i, pos); the position is not modelled.
NewItem(i) ==
    /\ LET g == IF quantity(i) > maximumQuantity(i)
                THEN adjust(i, quantity(i) - maximumQuantity(i))
                ELSE i
       IN ent' = [made |-> TRUE, arg |-> i, i |-> ItemFromNBT(ItemToNBT(g)),
                  pickupDelay |-> 40]
    /\ UNCHANGED <<slots, attached>>
    /\ UNCHANGED seqVars
    /\ UNCHANGED conVars

NextItem == \E i \in ItemStacks : NewItem(i)

SpecItem == Init /\ [][NextItem]_vars

\* ------------------------------------------------------------------------
\* Properties
\* ------------------------------------------------------------------------
\* The slots of sl that AddItem(it) can put items in: the empty ones and the
\* ones holding a stack comparable to it.
usable(sl, it) == {i \in DOMAIN sl : isEmpty(sl[i]) \/ isComparable(sl[i], it)}

\* The sum of the quantities of the slots of sl, from slot i on, that are
\* not empty and comparable to it.
RECURSIVE totalFrom(_, _, _)
totalFrom(sl, it, i) ==
    IF i >= len(sl) THEN 0
    ELSE (IF ~isEmpty(sl[i]) /\ isComparable(sl[i], it) THEN quantity(sl[i]) ELSE 0)
         + totalFrom(sl, it, i + 1)

total(sl, it) == totalFrom(sl, it, 0)

AddFailed == call.op = "AddItem" /\ ret.err = "ErrAdd" /\ len(pre) >= 1

\* C1 as stated: after an AddItem that returned the error, every slot that was
\* empty or comparable to the stack holds exactly the maximum count.
C1_AddFailsOnlyWhenExactlyFull ==
    AddFailed =>
        \A i \in usable(pre, call.it) : quantity(slots[i]) = maximumQuantity(call.it)

\* C1 as amended: after an AddItem that returned the error, every slot that was
\* empty or comparable to the stack holds at least the maximum count: exactly
\* the maximum count if it held no more than that before the call, and what it
\* held before the call otherwise.
C1_AddFailsOnlyWhenNoCapacity ==
    AddFailed =>
        \A i \in usable(pre, call.it) :
            /\ quantity(slots[i]) >= maximumQuantity(call.it)
            /\ quantity(pre[i]) <= maximumQuantity(call.it)
                   => quantity(slots[i]) = maximumQuantity(call.it)
            /\ quantity(pre[i]) > maximumQuantity(call.it) => slots[i] = pre[i]

\* An AddItem failed after it filled a slot that was empty and topped up a
\* comparable slot, with another comparable slot above the maximum count.
C1_Witness ==
    /\ AddFailed
    /\ \E i \in DOMAIN pre : isEmpty(pre[i]) /\ quantity(slots[i]) = maximumQuantity(call.it)
    /\ \E i \in DOMAIN pre : quantity(pre[i]) > maximumQuantity(call.it)
                             /\ isComparable(pre[i], call.it)

\* C2: RemoveItem returns the error if and only if the slots comparable to the
\* stack hold less than the quantity of the stack in total, on every inventory
\* made by New and for every quantity, 0 included.
C2_RemoveFailsIffTooFew ==
    (call.op = "RemoveItem" /\ len(pre) >= 1) =>
        (ret.err = "ErrRemove" <=> total(pre, call.it) < quantity(call.it))

\* C3: every method called on the zero value of Inventory panics, and so does
\* New for every size <= 0.
C3_ZeroValuePanics ==
    /\ (len(pre) = 0 /\ call.op \in {"Item", "SetItem", "AddItem", "RemoveItem",
                                     "Empty", "Size", "Close"})
           => ret.err = "panic"
    /\ (call.op = "New" /\ call.size <= 0) => ret.err = "panic"

\* C7: AddItem of a stack on an inventory whose slots are all empty and that
\* has room for the stack, followed by RemoveItem of the same stack, leaves
\* every slot empty.
C7_AddRemoveRoundTrip ==
    pair.kind = "add-remove" => empty(slots) /\ call.op = "RemoveItem"

\* A round trip of a stack that AddItem spread over several slots.
C7_Witness ==
    /\ pair.kind = "add-remove"
    /\ quantity(pair.it) > maximumQuantity(pair.it)
    /\ Cardinality({i \in DOMAIN pre : ~isEmpty(pre[i])}) >= 2
    /\ empty(slots)

\* C8: on a 2-slot inventory just made, AddItem(A,40), AddItem(A,30),
\* AddItem(B,10), RemoveItem(A,50) give: slot 0 = A:40; slot 0 = A:64 and
\* slot 1 = A:6; the error with both slots as they were; slot 0 = A:14 and
\* slot 1 = A:6.
C8_Scenario ==
    /\ scen = 1 => /\ ret.err = "nil"
                   /\ slots[0] = NewStack("A", 40)
                   /\ isEmpty(slots[1])
    /\ scen = 2 => /\ ret.err = "nil"
                   /\ slots[0] = NewStack("A", 64)
                   /\ slots[1] = NewStack("A", 6)
    /\ scen = 3 => /\ ret.err = "ErrAdd"
                   /\ slots = pre
                   /\ slots[0] = NewStack("A", 64)
                   /\ slots[1] = NewStack("A", 6)
    /\ scen = 4 => /\ ret.err = "nil"
                   /\ slots[0] = NewStack("A", 14)
                   /\ slots[1] = NewStack("A", 6)

\* The four calls of the scenario were made.
C8_Witness == scen = 4 /\ call = Scenario[4]

OutOfRangeCall ==
    /\ call.op \in {"Item", "SetItem"}
    /\ len(pre) >= 1
    /\ (call.slot < 0 \/ call.slot >= len(pre))

\* C9: Item and SetItem with a slot below 0 or not below Size() return
\* ErrSlotOutOfRange, change no slot and do not call the function passed to
\* New.
C9_OutOfRange ==
    OutOfRangeCall => ret.err = "ErrSlotOutOfRange" /\ slots = pre /\ notes = <<>>

\* SetItem of a stack that is not empty was called with a slot that is out of
\* range, on an inventory whose function was not yet freed by Close.
C9_Witness ==
    /\ OutOfRangeCall
    /\ call.op = "SetItem"
    /\ ~isEmpty(call.it)
    /\ attached
    /\ call.slot = len(pre)

\* C10: SetItem(slot, x) with a valid slot, followed at once by Item(slot),
\* returns x, and SetItem changes no other slot.
C10_SetThenGet ==
    /\ pair.kind = "set-get" => ret.err = "nil" /\ ret.stack = pair.it
    /\ (call.op = "SetItem" /\ ret.err = "nil")
           => \A j \in DOMAIN pre : j # call.slot => slots[j] = pre[j]

\* Item returned a stack that is not empty right after SetItem stored it, in
\* an inventory with another slot that is not empty.
C10_Witness ==
    /\ pair.kind = "set-get"
    /\ ~isEmpty(pair.it)
    /\ ret.stack = pair.it
    /\ \E j \in DOMAIN slots : j # call.slot /\ ~isEmpty(slots[j])

\* The next step of goroutine t reads an element of inv.slots.
ReadsSlots(t) ==
    \/ pc[t] = "Item_read"
    \/ pc[t] \in {"String_read", "AddItem_pass1", "AddItem_pass2", "RemoveItem_loop"}
       /\ loc[t].i < len(slots)

\* The next step of goroutine t writes an element of inv.slots.
WritesSlots(t) ==
    \/ pc[t] = "SetItem_write"
    \/ pc[t] = "AddItem_pass1" /\ loc[t].i < len(slots) /\ ~isEmpty(slots[loc[t].i])
    \/ pc[t] = "AddItem_pass2" /\ loc[t].i < len(slots) /\ isEmpty(slots[loc[t].i])
    \/ /\ pc[t] = "RemoveItem_loop" /\ loc[t].i < len(slots)
       /\ ~isEmpty(slots[loc[t].i]) /\ isComparable(slots[loc[t].i], loc[t].it)

\* C4: the slots are protected by the mutex: no goroutine is about to read a
\* slot while another goroutine is about to write one.
C4_NoReadDuringWrite ==
    \A t1, t2 \in Threads : t1 # t2 => ~(ReadsSlots(t1) /\ WritesSlots(t2))

\* Goroutine t is inside the loops of AddItem or RemoveItem.
InScan(t) == pc[t] \in {"AddItem_pass1", "AddItem_pass2", "RemoveItem_loop"}

\* What the whole call that goroutine t is in gives on the slots it found.
scanResult(t) ==
    IF loc[t].op = "AddItem" THEN addItem(snap[t], attached, loc[t].arg)
    ELSE removeItem(snap[t], attached, loc[t].arg)

\* C5: while a goroutine is inside the loops of AddItem or RemoveItem it holds
\* the lock alone, no step of Item, SetItem, AddItem, RemoveItem, Empty, Size
\* or Close of another goroutine happens, and when it returns the slots and
\* the error are those of the whole call applied to the slots it found when
\* it took the lock.
C5_AddRemoveAtomic ==
    [][\A t \in Threads :
          InScan(t) =>
              /\ writer = t /\ readers = {}
              /\ \A u \in Threads \ {t} :
                     \/ pc'[u] = pc[u] /\ loc'[u] = loc[u]
                     \/ pc[u] = "String_read"
              /\ ev'.t \in {0, t} \/ ev'.op = "String"
              /\ pc'[t] = "idle" => /\ slots' = scanResult(t).slots
                                    /\ ev'.err = scanResult(t).err]_vars

\* A goroutine is in the second loop of AddItem after it wrote a slot, while
\* another goroutine waits for the lock inside SetItem.
C5_Witness ==
    \E t, u \in Threads :
        /\ t # u
        /\ pc[t] = "AddItem_pass2" /\ loc[t].i >= 1 /\ slots # snap[t]
        /\ pc[u] = "SetItem_lock"

\* The sum of the quantities of the slots of sl from slot i on.
RECURSIVE sumFrom(_, _)
sumFrom(sl, i) == IF i >= len(sl) THEN 0 ELSE quantity(sl[i]) + sumFrom(sl, i + 1)

\* C6: with goroutines that call AddItem, RemoveItem and Item on an inventory
\* that starts empty, every slot holds between 0 and the maximum count of its
\* stack and the slots hold at most Size() times the maximum count in total.
C6_TotalWithinCapacity ==
    /\ \A i \in DOMAIN slots :
           /\ slots[i].count >= 0
           /\ quantity(slots[i]) <= maximumQuantity(NewStack("P", 0))
           /\ quantity(slots[i]) <= maximumQuantity(slots[i])
    /\ sumFrom(slots, 0) <= len(slots) * maximumQuantity(NewStack("P", 0))

\* An AddItem of more than fits returned the error and left every slot of a
\* 2-slot inventory full, while another goroutine is inside Item.
C6_Witness ==
    /\ ev.op = "AddItem" /\ ev.err = "ErrAdd"
    /\ len(slots) >= 2
    /\ sumFrom(slots, 0) = len(slots) * maximumQuantity(NewStack("P", 0))
    /\ \E u \in Threads : u # ev.t /\ pc[u] = "Item_rlock"

\* C11: an inventory made by New(n, f) with n >= 1 has n slots, every later
\* call leaves it with as many slots as it had, and Size() returns that
\* number, whatever calls were made before and whichever goroutine calls it.
C11_SizeConstant ==
    /\ (call.op = "New" /\ ret.err = "nil") => call.size >= 1 /\ len(slots) = call.size
    /\ (call.op \notin {"none", "New"} /\ len(pre) >= 1) => len(slots) = len(pre)
    /\ (call.op = "Size" /\ len(pre) >= 1) => ret.err = "nil" /\ ret.n = len(pre)
    /\ ev.op = "Size" => ev.n = len(slots)

\* Size() returned the number of slots of an inventory of more than one slot
\* that holds a stack in one slot only, after Close.
C11_Witness ==
    /\ call.op = "Size"
    /\ ret.n = len(slots)
    /\ len(slots) >= 2
    /\ Cardinality({i \in DOMAIN slots : ~isEmpty(slots[i])}) = 1
    /\ ~attached

\* What the call c gives on the slots sl of an inventory whose function was
\* not freed by Close: the slots and the error.
withCallback(sl, c) ==
    IF c.op = "AddItem" THEN addItem(sl, TRUE, c.it)
    ELSE IF c.op = "RemoveItem" THEN removeItem(sl, TRUE, c.it)
    ELSE IF validSlot(sl, c.slot)
    THEN [slots |-> setItem(sl, <<>>, TRUE, c.slot, c.it).slots, err |-> "nil"]
    ELSE [slots |-> sl, err |-> "ErrSlotOutOfRange"]

\* C12: Close returns nil every time it is called and changes no slot; once
\* it returned, the function passed to New stays freed, so no later SetItem,
\* AddItem or RemoveItem calls it, and these calls change the slots and
\* return the error as they do on an inventory that was not closed.
C12_CloseSilences ==
    [][len(slots) >= 1 =>
          /\ call'.op = "Close"
                 => ret'.err = "nil" /\ slots' = slots /\ notes' = <<>> /\ ~attached'
          /\ ~attached => ~attached'
          /\ (~attached /\ call'.op \in {"SetItem", "AddItem", "RemoveItem"})
                 => LET r == withCallback(slots, call')
                    IN notes' = <<>> /\ slots' = r.slots /\ ret'.err = r.err]_vars

\* After Close was called twice in a row on an inventory made with a
\* function, and after AddItem spread a stack over two slots right after
\* Close without a call of the function.
C12_Witness ==
    \/ /\ pair.kind = "close-close"
       /\ ret.err = "nil" /\ ~empty(slots)
    \/ /\ pair.kind = "close-add"
       /\ ret.err = "nil" /\ notes = <<>>
       /\ Cardinality({i \in DOMAIN slots : slots[i] # pre[i]}) >= 2

\* C13: the stack of the item entity made by NewItem(i, pos) has the count of
\* i, or the maximum count of i if the count of i is above it.
C13_NewItemClampsCount ==
    ent.made =>
        /\ ent.i.item = ent.arg.item
        /\ quantity(ent.i) = Min(quantity(ent.arg), maximumQuantity(ent.arg))

\* The slots that the calls of the function passed to New were made for, in
\* order.
noted(ns) == [k \in 1 .. Len(ns) |-> ns[k][1]]

\* C14: AddItem calls the function passed to New only for slots that were
\* empty or held a stack comparable to the one added; a slot that held a
\* stack not comparable to it is not written and the function is not called
\* for it; and the function is called at most once for a slot.
C14_AddNotifiesOnlyUsableSlots ==
    (call.op = "AddItem" /\ len(pre) >= 1 /\ attached) =>
        /\ \A k \in 1 .. Len(notes) : noted(notes)[k] \in usable(pre, call.it)
        /\ \A i \in DOMAIN pre \ usable(pre, call.it) : slots[i] = pre[i]
        /\ \A k, l \in 1 .. Len(notes) : k # l => noted(notes)[k] # noted(notes)[l]

\* The slots of sl the first loop of AddItem(it) can add to, and the slots
\* the second loop can.
stacked(sl, it) == {i \in DOMAIN sl : ~isEmpty(sl[i]) /\ isComparable(sl[i], it)}
vacant(sl) == {i \in DOMAIN sl : isEmpty(sl[i])}

\* The stack s has no room left for items of stack it.
full(s, it) == quantity(s) >= maximumQuantity(it)

\* Slot i holds more after the last call than before it.
gained(i) == quantity(slots[i]) > quantity(pre[i])

\* What the first k calls of the function passed to New, ns, say was added in
\* all to the slots sl.
RECURSIVE gainUpTo(_, _, _)
gainUpTo(ns, sl, k) ==
    IF k = 0 THEN 0
    ELSE quantity(ns[k][2]) - quantity(sl[ns[k][1]]) + gainUpTo(ns, sl, k - 1)

\* C15: AddItem is first-fit in two loops.  A slot that was empty gains items
\* only if every slot that held a comparable stack is full; a slot gains
\* items only if every lower slot of the same loop is full; and the scan ends
\* with the write that leaves nothing to add: a slot that changed and is not
\* full is the last one changed, and every write but the last left something
\* to add.
C15_AddFirstFit ==
    (call.op = "AddItem" /\ len(pre) >= 1) =>
        LET it == call.it
            S == stacked(pre, it)
            V == vacant(pre)
            rank(i) == IF i \in V THEN len(pre) + i ELSE i
        IN /\ \A j \in V : slots[j] # pre[j] => \A i \in S : full(slots[i], it)
           /\ \A j \in S : gained(j) => \A i \in S : i < j => full(slots[i], it)
           /\ \A j \in V : slots[j] # pre[j] => \A i \in V : i < j => full(slots[i], it)
           /\ \A j \in DOMAIN pre :
                  (slots[j] # pre[j] /\ ~full(slots[j], it))
                      => \A i \in DOMAIN pre : rank(i) > rank(j) => slots[i] = pre[i]
           /\ \A i \in DOMAIN pre \ (S \cup V) : slots[i] = pre[i]
           /\ attached =>
                  /\ \A k \in 1 .. Len(notes) - 1 : gainUpTo(notes, pre, k) < quantity(it)
                  /\ \A i \in DOMAIN pre :
                         (\A k \in 1 .. Len(notes) : notes[k][1] # i) => slots[i] = pre[i]

\* AddItem topped up a stack to the full and put what was left in an empty
\* slot below it, which it did not fill.
C15_Witness ==
    /\ call.op = "AddItem" /\ ret.err = "nil" /\ attached
    /\ \E e, j \in DOMAIN pre :
           /\ e < j
           /\ isEmpty(pre[e]) /\ gained(e) /\ ~full(slots[e], call.it)
           /\ j \in stacked(pre, call.it) /\ gained(j) /\ full(slots[j], call.it)

\* C16: a RemoveItem that returned nil took exactly the quantity of the stack:
\* the slots comparable to it hold that much less in total, a slot lost items
\* only if every lower comparable slot was emptied, a slot that kept items is
\* the last one changed, and the stacks keep their item; the slots that were
\* empty or not comparable are as they were.
C16_RemoveTakesExactly ==
    (call.op = "RemoveItem" /\ ret.err = "nil" /\ len(pre) >= 1) =>
        LET it == call.it
            S == stacked(pre, it)
        IN /\ total(pre, it) - total(slots, it) = quantity(it)
           /\ \A j \in S : /\ slots[j].item = pre[j].item
                           /\ quantity(slots[j]) <= quantity(pre[j])
           /\ \A j \in S : slots[j] # pre[j]
                               => \A i \in S : i < j => quantity(slots[i]) = 0
           /\ \A j \in S : quantity(slots[j]) > 0
                               => \A i \in S : i > j => slots[i] = pre[i]
           /\ \A i \in DOMAIN pre \ S : slots[i] = pre[i]

\* RemoveItem took more than a full stack: it emptied the first comparable
\* slot and took a part of the next one, which held more than was left to
\* take.
C16_Witness ==
    /\ call.op = "RemoveItem" /\ ret.err = "nil"
    /\ quantity(call.it) > maximumQuantity(call.it)
    /\ \E i, j \in stacked(pre, call.it) :
           /\ i < j
           /\ quantity(slots[i]) = 0
           /\ quantity(slots[j]) > 0 /\ quantity(slots[j]) < quantity(pre[j])

\* C17: a RemoveItem that returned the error is not undone: every slot that
\* held a stack comparable to the stack asked for holds that item with
\* quantity 0, and every other slot is as it was.
C17_FailedRemoveDrains ==
    (call.op = "RemoveItem" /\ ret.err = "ErrRemove" /\ len(pre) >= 1) =>
        \A i \in DOMAIN pre :
            IF isComparable(pre[i], call.it)
            THEN quantity(slots[i]) = 0 /\ slots[i].item = pre[i].item
            ELSE slots[i] = pre[i]

\* RemoveItem returned the error after it emptied a slot, next to a slot with
\* a stack of another item.
C17_Witness ==
    /\ call.op = "RemoveItem" /\ ret.err = "ErrRemove"
    /\ \E i, j \in DOMAIN pre :
           /\ i \in stacked(pre, call.it) /\ quantity(slots[i]) = 0
           /\ ~isEmpty(pre[j]) /\ ~isComparable(pre[j], call.it) /\ slots[j] = pre[j]

\* The sum over the slots j of sl in the set S, from slot i on, of what is
\* missing to the maximum count of it; negative where a slot holds more.
RECURSIVE missingFrom(_, _, _, _)
missingFrom(sl, it, S, i) ==
    IF i >= len(sl) THEN 0
    ELSE (IF i \in S THEN maximumQuantity(it) - quantity(sl[i]) ELSE 0)
         + missingFrom(sl, it, S, i + 1)

\* The same sum with a slot that holds more than the maximum count counted
\* as missing nothing.
RECURSIVE roomFrom(_, _, _, _)
roomFrom(sl, it, S, i) ==
    IF i >= len(sl) THEN 0
    ELSE (IF i \in S /\ quantity(sl[i]) < maximumQuantity(it)
          THEN maximumQuantity(it) - quantity(sl[i]) ELSE 0)
         + roomFrom(sl, it, S, i + 1)

\* What AddItem(it) does with free units of room in the slots before the call.
addsUpTo(free) ==
    LET it == call.it
    IN /\ ret.err = "nil" <=> quantity(it) <= free
       /\ total(slots, it) - total(pre, it) = Min(quantity(it), free)
       /\ \A i \in DOMAIN pre \ usable(pre, it) : slots[i] = pre[i]

\* C20 as stated: with free the number of empty slots times the maximum count
\* plus the sum over the comparable slots of (maximum count - quantity),
\* AddItem returns nil if and only if the quantity of the stack is at most
\* free, the inventory holds min(quantity, free) more of the item, and the
\* slots holding another item are as they were.
C20_AddConservesLiteral ==
    (call.op = "AddItem" /\ len(pre) >= 1) =>
        addsUpTo(Cardinality(vacant(pre)) * maximumQuantity(call.it)
                 + missingFrom(pre, call.it, stacked(pre, call.it), 0))

\* C20 as amended: the same with a comparable slot that holds more than the
\* maximum count counted as having no room, not negative room.
C20_AddConserves ==
    (call.op = "AddItem" /\ len(pre) >= 1) =>
        addsUpTo(Cardinality(vacant(pre)) * maximumQuantity(call.it)
                 + roomFrom(pre, call.it, stacked(pre, call.it), 0))

\* AddItem returned the error after it added what fitted, to an inventory
\* with a comparable stack above the maximum count in one slot and room in
\* another slot.
C20_Witness ==
    /\ call.op = "AddItem" /\ ret.err = "ErrAdd"
    /\ total(slots, call.it) > total(pre, call.it)
    /\ \E i \in stacked(pre, call.it) : quantity(pre[i]) > maximumQuantity(call.it)

\* C19: while inv.f is the function passed to New and no goroutine holds the
\* lock exclusively, the copy kept by an observer that started with every
\* slot empty and applied each call of the function, in the order the calls
\* were made, is equal to the slots.
C19_ObserverMirrors == (attached /\ writer = 0) => mirror = slots

\* RemoveItem just returned on an inventory that holds stacks of two items,
\* stored by SetItem and AddItem, with the function still attached and the
\* observer's copy equal to the slots.
C19_Witness ==
    /\ attached /\ writer = 0
    /\ ev.op = "RemoveItem" /\ ev.err = "nil"
    /\ mirror = slots
    /\ \E i, j \in DOMAIN slots :
           /\ slots[i].item = "P" /\ ~isEmpty(slots[i])
           /\ slots[j].item = "Q" /\ ~isEmpty(slots[j])

\* Goroutine t is inside inv.f; it called a method of the inventory from
\* there.
InCallback(t) == pc[t] = "SetItem_f" \/ (pc[t] = "idle" /\ loc[t].op = "f")
Reentered(t) == pc[t] = "idle" /\ loc[t].op = "f"

\* C18: a goroutine inside inv.f holds the lock exclusively; until inv.f
\* returns no other goroutine takes a step of, or returns from, Item, Size,
\* Empty, SetItem, AddItem, RemoveItem or Close; and a goroutine that called
\* one of these from inside inv.f takes no further step, returns from nothing
\* and keeps the lock.
C18_CallbackHoldsLock ==
    /\ [](\A t \in Threads : InCallback(t) => writer = t /\ readers = {})
    /\ [][\A t \in Threads :
             InCallback(t) =>
                 /\ ev'.t \in {0, t}
                 /\ \A u \in Threads \ {t} : pc'[u] = pc[u] /\ loc'[u] = loc[u]
                 /\ Reentered(t) => /\ pc'[t] = pc[t] /\ loc'[t] = loc[t]
                                    /\ writer' = t
                                    /\ ev'.t = 0]_vars

\* A goroutine called a method of the inventory from inside inv.f and holds
\* the lock, while another goroutine waits for the lock inside SetItem.
C18_Witness ==
    \E t, u \in Threads :
        /\ t # u
        /\ Reentered(t) /\ writer = t
        /\ pc[u] = "SetItem_lock"

====
